---- MODULE Spec2Model ----
(***************************************************************************)
(* Model of fpga_gpio_controller.py: the IndividualPinController process.  *)
(*                                                                         *)
(* Two execution contexts exist.  The main thread runs __init__            *)
(* (setup_gpio, then the signal.signal calls), run() (test_all_leds,       *)
(* setup_mqtt, loop_start, the sleep loop) and, because Python runs signal *)
(* handlers on the main thread, cleanup_and_exit.  The bus thread is the   *)
(* network loop started by loop_start(); it runs on_connect and            *)
(* on_message/handle_pin_command.  One `sudo pinctrl` subprocess is one    *)
(* atomic step whose success is chosen by the environment.                 *)
(*                                                                         *)
(* Conventions.  A failed pinctrl call leaves the pin as it was.  The      *)
(* `except KeyboardInterrupt` of run() is not modelled: by the time run()  *)
(* executes, SIGINT is bound to cleanup_and_exit and no longer raises      *)
(* KeyboardInterrupt.  exitCode is 0 for sys.exit(0), 1 for an uncaught    *)
(* exception, 130 / 143 for a process ended by an unhandled SIGINT /       *)
(* SIGTERM.  Variables that only record what has happened (swept,          *)
(* sweptOk, sweepComplete, sweepStarted, stateBefore, fatal, cfgFailed,    *)
(* everLow, testDone, applied, signalled, calls, prev, lastOk, pubs,       *)
(* lastPub) are never read by an action's guard.                           *)
(***************************************************************************)
EXTENDS Integers, Sequences, FiniteSets, TLC

\* ---------------------------------------------------------------- bounds
NumEntries  == 2   \* entries of GPIO_PINS taken into the registry (in order)
MaxMsgs     == 2   \* bus messages delivered to on_message
MaxFailures == 1   \* driver calls that fail

\* -------------------------------------------------------------- registry
GPIO_PINS ==
  [ fpga1 |-> [dan |-> 18, nate |-> 19, ben |-> 20, loaded |-> 21],
    fpga2 |-> [dan |-> 22, nate |-> 23, ben |-> 24, loaded |-> 25],
    fpga3 |-> [dan |-> 26, nate |-> 27, ben |-> 13, loaded |-> 6] ]

\* The keys of GPIO_PINS in dictionary (insertion) order.
GroupOrder == <<"fpga1", "fpga2", "fpga3">>

\* The keys of every group of GPIO_PINS in dictionary order.
LineOrder == <<"dan", "nate", "ben", "loaded">>

Min(a, b) == IF a < b THEN a ELSE b

NGroups   == Len(GroupOrder)
NLines    == Len(LineOrder)

\* The registry the model keeps is the first NumEntries entries of GPIO_PINS
\* in dictionary order.  Every loop of the program treats all entries alike.
NEntries  == Min(NumEntries, NGroups * NLines)

\* GPIO_PINS.items() / pins.items(): the registry in dictionary order.
Registry ==
  [ k \in 1..NEntries |->
      << GroupOrder[((k - 1) \div NLines) + 1], LineOrder[((k - 1) % NLines) + 1] >> ]

Entries == { Registry[k] : k \in 1..NEntries }
\* A lookup that takes the pin of the group's first line for every line.
PinOfFirstLine(e) == GPIO_PINS[e[1]][LineOrder[1]]

\* pin = GPIO_PINS[fpga_id][user_type]
Pin(e)  == GPIO_PINS[e[1]][e[2]]
Pins    == { Pin(e) : e \in Entries }

\* `fpga_id in GPIO_PINS and user_type in GPIO_PINS[fpga_id]`
IsRegistered(g, l) == << g, l >> \in Entries

\* ------------------------------------------------------- payload parsing
\* A payload is the sequence of its characters.
Whitespace == {" ", "\n", "\t"}

RECURSIVE LStrip(_)
LStrip(s) == IF s # <<>> /\ Head(s) \in Whitespace THEN LStrip(Tail(s)) ELSE s

RECURSIVE RStrip(_)
RStrip(s) ==
  IF s # <<>> /\ s[Len(s)] \in Whitespace THEN RStrip(SubSeq(s, 1, Len(s) - 1)) ELSE s

\* str.strip()
Strip(s) == RStrip(LStrip(s))

LowerChar(c) ==
  CASE c = "T" -> "t" [] c = "R" -> "r" [] c = "U" -> "u" [] c = "E" -> "e"
    [] c = "F" -> "f" [] c = "A" -> "a" [] c = "L" -> "l" [] c = "S" -> "s"
    [] OTHER -> c

\* str.lower()
Lower(s) == [ i \in 1..Len(s) |-> LowerChar(s[i]) ]

\* A comparison without .lower().
ParseValueCaseSensitive(value_str) == value_str = <<"t", "r", "u", "e">>

\* value = value_str.lower() == 'true'
ParseValue(value_str) == Lower(value_str) = <<"t", "r", "u", "e">>

\* Control GPIO pin with inverted logic: the wrong polarity.
TargetLevelSamePolarity(value) == IF value THEN "High" ELSE "Low"

\* Control GPIO pin with inverted logic (UDN2981A): ON -> dl, OFF -> dh.
TargetLevel(value) == IF value THEN "Low" ELSE "High"

\* ---------------------------------------------------------------- inputs
Payloads ==
  { <<"T", "r", "u", "e">>,
    <<" ", "t", "r", "u", "e", "\n">>,
    <<"f", "a", "l", "s", "e">>,
    <<"1">>,
    <<>> }

\* Bytes that are not UTF-8: msg.payload.decode('utf-8') raises on them.
InvalidUtf8 == <<"\\xff">>

RawPayloads == Payloads \cup {InvalidUtf8}

CommandTopics == { <<"fpga", "command", e[1], e[2]>> : e \in Entries }

OtherTopics ==
  { <<"fpga", "command", "fpga9", "dan">>,
    <<"fpga", "command", "fpga1", "ghost">>,
    <<"fpga", "status", "fpga1", "dan">>,
    <<"home", "command", "fpga1", "dan">>,
    <<"fpga", "command", "fpga1">>,
    <<"fpga", "command", "fpga1", "dan", "x">> }

\* Messages on_message is given: any payload on a command topic, and one
\* payload on each other topic (the payload of a dropped topic is not used).
Messages ==
  { <<t, raw>> : t \in CommandTopics, raw \in RawPayloads }
    \cup { <<t, <<"T", "r", "u", "e">> >> : t \in OtherTopics }

Signals == {"SIGINT", "SIGTERM"}

NoMsg == [topic |-> <<>>, raw |-> <<>>, accepted |-> FALSE]

NoPub == [topic |-> <<>>, payload |-> <<>>]

\* ----------------------------------------------------------------- state
VARIABLES
  mpc,            \* main thread: the statement it is about to execute
  idx,            \* main thread: position in the registry of the running loop
  handlers,       \* signals for which cleanup_and_exit is installed
  mqtt_client,    \* self.mqtt_client: "None" or "Client"
  running,        \* self.running
  disconnected,   \* mqtt_client.disconnect() has been called
  exitCode,       \* -1 while the process lives, else its exit status
  current_state,  \* the current_state table
  configured,     \* hardware: pins successfully set as output
  level,          \* hardware: last level successfully driven on each pin
  bpc,            \* bus thread: position
  subscribed,     \* on_connect has subscribed to the command topics
  cur,            \* bus thread: the message being handled
  prev,           \* recorded state of cur.line when the command arrived
  calls,          \* driver set-level calls made for the command being handled
  lastOk,         \* result of the last driver call of the bus thread
  pubs,           \* publishes made for the message being handled
  lastPub,        \* the status message published for the message being handled
  swept,          \* lines the running sweep has attempted
  sweptOk,        \* lines whose drive-High succeeded in the running sweep
  sweepComplete,  \* a sweep has run to its end having attempted every line
  sweepStarted,   \* cleanup_and_exit has been entered
  stateBefore,    \* current_state as it was when cleanup_and_exit was last entered
  fatal,          \* "none", or the startup failure that was raised
  cfgFailed,      \* a set_pin_output call of setup_gpio has failed
  everLow,        \* a drive-Low call has been made on some pin
  testDone,       \* test_all_leds has returned
  applied,        \* handle_pin_command has been entered at least once
  signalled,      \* a termination signal has been delivered
  nmsgs,          \* messages delivered to on_message
  nfail           \* driver calls that have failed

vars ==
  << mpc, idx, handlers, mqtt_client, running, disconnected, exitCode,
     current_state, configured, level, bpc, subscribed, cur, prev, calls,
     lastOk, pubs, lastPub, swept, sweptOk, sweepComplete, sweepStarted, stateBefore,
     fatal, cfgFailed, everLow, testDone, applied, signalled, nmsgs, nfail >>

mainVars == << mpc, idx, handlers, mqtt_client, running, disconnected, exitCode >>
busVars  == << bpc, subscribed, cur, prev, calls, lastOk, pubs, lastPub >>
sweepVars == << swept, sweptOk, sweepComplete, sweepStarted, stateBefore >>

Alive == exitCode = -1

\* ---------------------------------------------------------------- driver
\* run_pinctrl: returncode == 0, or not (non-zero return code or exception).
Outcomes == IF nfail < MaxFailures THEN {TRUE, FALSE} ELSE {TRUE}

Count(ok) == nfail' = IF ok THEN nfail ELSE nfail + 1

\* set_pin_output(pin)
SetPinOutput(pin, ok) ==
  configured' = IF ok THEN configured \cup {pin} ELSE configured

\* set_pin_high(pin) / set_pin_low(pin): a failed call leaves the pin as it was.
SetPinLevel(pin, lv, ok) ==
  level' = IF ok THEN [level EXCEPT ![pin] = lv] ELSE level

Init ==
  /\ mpc = "cfg"
  /\ idx = 1
  /\ handlers = {}
  /\ mqtt_client = "None"
  /\ running = FALSE
  /\ disconnected = FALSE
  /\ exitCode = -1
  /\ current_state = [e \in Entries |-> FALSE]
  /\ configured = {}
  /\ level = [p \in Pins |-> "None"]
  /\ bpc = "off"
  /\ subscribed = FALSE
  /\ cur = NoMsg
  /\ prev = FALSE
  /\ calls = <<>>
  /\ lastOk = TRUE
  /\ pubs = 0
  /\ lastPub = NoPub
  /\ swept = {}
  /\ sweptOk = {}
  /\ sweepComplete = FALSE
  /\ sweepStarted = FALSE
  /\ stateBefore = [e \in Entries |-> FALSE]
  /\ fatal = "none"
  /\ cfgFailed = FALSE
  /\ everLow = FALSE
  /\ testDone = FALSE
  /\ applied = FALSE
  /\ signalled = FALSE
  /\ nmsgs = 0
  /\ nfail = 0


\* ----------------------------------------------------- main thread: init
\* setup_gpio: a failed set_pin_output is logged and the loop goes on.
AfterConfigureIgnoringFailure(ok) == "init_high"

\* setup_gpio: `if not self.set_pin_output(pin): raise Exception(...)`.
\* Nothing catches the exception: the process ends with a traceback.
AfterConfigure(ok) == IF ok THEN "init_high" ELSE "terminated"

\* setup_gpio, first call of the loop body: set_pin_output(pin)
InitConfigure ==
  /\ Alive /\ mpc = "cfg"
  /\ \E ok \in Outcomes :
       LET next == AfterConfigure(ok) IN
       /\ SetPinOutput(Pin(Registry[idx]), ok)
       /\ Count(ok)
       /\ cfgFailed' = (cfgFailed \/ ~ok)
       /\ mpc' = next
       /\ exitCode' = IF next = "terminated" THEN 1 ELSE exitCode
       /\ fatal' = IF next = "terminated" THEN "config" ELSE fatal
  /\ UNCHANGED << idx, handlers, mqtt_client, running, disconnected,
                  current_state, level, everLow, applied, signalled, nmsgs >>
  /\ UNCHANGED busVars
  /\ UNCHANGED testDone
  /\ UNCHANGED sweepVars

\* setup_gpio that starts every LED on.
InitLevelLow == "Low"

\* setup_gpio: `self.set_pin_high(pin)  # HIGH = LED OFF for UDN2981A`
InitLevel == "High"

\* setup_gpio, second call of the loop body: set_pin_high(pin), raise on failure
InitDriveHigh ==
  /\ Alive /\ mpc = "init_high"
  /\ \E ok \in Outcomes :
       /\ SetPinLevel(Pin(Registry[idx]), InitLevel, ok)
       /\ Count(ok)
       /\ IF ~ok
            THEN /\ mpc' = "terminated" /\ exitCode' = 1 /\ fatal' = "drive"
                 /\ idx' = idx
            ELSE /\ mpc' = IF idx < NEntries THEN "cfg" ELSE "install_int"
                 /\ idx' = IF idx < NEntries THEN idx + 1 ELSE 1
                 /\ UNCHANGED << exitCode, fatal >>
  /\ UNCHANGED << handlers, mqtt_client, running, disconnected, current_state,
                  configured, cfgFailed, everLow, applied, signalled, nmsgs >>
  /\ UNCHANGED busVars
  /\ UNCHANGED testDone
  /\ UNCHANGED sweepVars

\* signal.signal(signal.SIGINT, self.cleanup_and_exit)
InstallSigint ==
  /\ Alive /\ mpc = "install_int"
  /\ handlers' = handlers \cup {"SIGINT"}
  /\ mpc' = "install_term"
  /\ UNCHANGED << idx, mqtt_client, running, disconnected, exitCode, current_state,
                  configured, level, fatal, cfgFailed, everLow, applied, signalled, nmsgs, nfail >>
  /\ UNCHANGED busVars
  /\ UNCHANGED testDone
  /\ UNCHANGED sweepVars

\* run() that goes to setup_mqtt without the self test.
RunEntrySkippingTest == "mqtt_new"

\* run(): after the log lines, `self.test_all_leds()` comes first.
RunEntry == "test_low"

\* signal.signal(signal.SIGTERM, self.cleanup_and_exit); __init__ returns, run() starts
InstallSigterm ==
  /\ Alive /\ mpc = "install_term"
  /\ handlers' = handlers \cup {"SIGTERM"}
  /\ mpc' = RunEntry
  /\ idx' = 1
  /\ UNCHANGED << mqtt_client, running, disconnected, exitCode, current_state,
                  configured, level, fatal, cfgFailed, everLow, applied, signalled, nmsgs, nfail >>
  /\ UNCHANGED busVars
  /\ UNCHANGED testDone
  /\ UNCHANGED sweepVars

\* ------------------------------------------------ main thread: self test
\* test_all_leds that never lights the LED.
TestFirstLevelHigh == "High"

\* test_all_leds: `self.set_pin_low(pin)   # LOW = LED ON for UDN2981A`
TestFirstLevel == "Low"

\* test_all_leds that leaves the LED on.
TestSecondLevelLow == "Low"

\* test_all_leds: `self.set_pin_high(pin)  # HIGH = LED OFF for UDN2981A`
TestSecondLevel == "High"

\* test_all_leds: set_pin_low(pin), result ignored
TestLow ==
  /\ Alive /\ mpc = "test_low"
  /\ \E ok \in Outcomes :
       /\ SetPinLevel(Pin(Registry[idx]), TestFirstLevel, ok)
       /\ Count(ok)
  /\ everLow' = (everLow \/ TestFirstLevel = "Low")
  /\ mpc' = "test_high"
  /\ UNCHANGED << idx, handlers, mqtt_client, running, disconnected, exitCode,
                  current_state, configured, fatal, cfgFailed, applied, signalled, nmsgs >>
  /\ UNCHANGED busVars
  /\ UNCHANGED testDone
  /\ UNCHANGED sweepVars

\* test_all_leds: set_pin_high(pin), result ignored
TestHigh ==
  /\ Alive /\ mpc = "test_high"
  /\ \E ok \in Outcomes :
       /\ SetPinLevel(Pin(Registry[idx]), TestSecondLevel, ok)
       /\ Count(ok)
  /\ mpc' = IF idx < NEntries THEN "test_low" ELSE "mqtt_new"
  /\ idx' = IF idx < NEntries THEN idx + 1 ELSE 1
  /\ testDone' = (idx = NEntries)
  /\ everLow' = (everLow \/ TestSecondLevel = "Low")
  /\ UNCHANGED << handlers, mqtt_client, running, disconnected, exitCode,
                  current_state, configured, fatal, cfgFailed, applied,
                  signalled, nmsgs >>
  /\ UNCHANGED busVars
  /\ UNCHANGED sweepVars

\* ------------------------------------------------ main thread: bus setup
\* setup_mqtt: self.mqtt_client = mqtt.Client() and the callback assignments
MqttNew ==
  /\ Alive /\ mpc = "mqtt_new"
  /\ mqtt_client' = "Client"
  /\ mpc' = "mqtt_connect"
  /\ UNCHANGED << idx, handlers, running, disconnected, exitCode, current_state,
                  configured, level, fatal, cfgFailed, everLow, applied, signalled, nmsgs, nfail >>
  /\ UNCHANGED busVars
  /\ UNCHANGED testDone
  /\ UNCHANGED sweepVars

\* setup_mqtt: self.mqtt_client.connect("localhost", 1883, 60); a refused
\* connection raises, and nothing catches it.
MqttConnect ==
  /\ Alive /\ mpc = "mqtt_connect"
  /\ \E ok \in BOOLEAN :
       IF ok
         THEN /\ mpc' = "set_running" /\ UNCHANGED << exitCode, fatal >>
         ELSE /\ mpc' = "terminated" /\ exitCode' = 1 /\ fatal' = "connect"
  /\ UNCHANGED << idx, handlers, mqtt_client, running, disconnected, current_state,
                  configured, level, cfgFailed, everLow, applied, signalled, nmsgs, nfail >>
  /\ UNCHANGED busVars
  /\ UNCHANGED testDone
  /\ UNCHANGED sweepVars

\* run: self.running = True
SetRunning ==
  /\ Alive /\ mpc = "set_running"
  /\ running' = TRUE
  /\ mpc' = "loop_start"
  /\ UNCHANGED << idx, handlers, mqtt_client, disconnected, exitCode, current_state,
                  configured, level, fatal, cfgFailed, everLow, applied, signalled, nmsgs, nfail >>
  /\ UNCHANGED busVars
  /\ UNCHANGED testDone
  /\ UNCHANGED sweepVars

\* run: self.mqtt_client.loop_start(), then `while self.running: time.sleep(10)`
LoopStart ==
  /\ Alive /\ mpc = "loop_start"
  /\ bpc' = "connack"
  /\ mpc' = "serving"
  /\ UNCHANGED << idx, handlers, mqtt_client, running, disconnected, exitCode,
                  current_state, configured, level, fatal, cfgFailed, everLow,
                  applied, signalled, nmsgs, nfail >>
  /\ UNCHANGED << subscribed, cur, prev, calls, lastOk, pubs, lastPub >>
  /\ UNCHANGED testDone
  /\ UNCHANGED sweepVars


\* ---------------------------------------------------- signals and cleanup
\* cleanup_and_exit that disconnects and exits without the sweep.
CleanupEntrySkippingSweep == "disconnect"

\* cleanup_and_exit starts with the sweep over GPIO_PINS.
CleanupEntry == "sweep"

\* The sweep stops at the first set_pin_high that fails.
SweepContinuesOnlyOnSuccess(ok) == ok

\* cleanup_and_exit ignores the value set_pin_high returns.
SweepContinues(ok) == TRUE

\* Delivery of SIGINT or SIGTERM.  With cleanup_and_exit installed for the
\* signal, Python runs it on the main thread, on top of whatever the main
\* thread was doing (a further signal nests a new cleanup_and_exit); the
\* handler ends in sys.exit, so the interrupted code never resumes.  Without
\* it, SIGINT raises KeyboardInterrupt, which nothing catches outside run()'s
\* sleep loop, and SIGTERM kills the process.
Signal(s) ==
  /\ Alive
  /\ signalled' = TRUE
  /\ IF s \in handlers
       THEN /\ mpc' = CleanupEntry
            /\ idx' = 1
            /\ swept' = {}
            /\ sweptOk' = {}
            /\ sweepStarted' = TRUE
            /\ stateBefore' = current_state
            /\ UNCHANGED << exitCode, sweepComplete >>
       ELSE /\ mpc' = "terminated"
            /\ exitCode' = IF s = "SIGINT" THEN 130 ELSE 143
            /\ UNCHANGED << idx, swept, sweptOk, sweepStarted, sweepComplete,
                            stateBefore >>
  /\ UNCHANGED << handlers, mqtt_client, running, disconnected, current_state,
                  configured, level, fatal, cfgFailed, everLow, applied, nmsgs, nfail >>
  /\ UNCHANGED busVars
  /\ UNCHANGED testDone

\* cleanup_and_exit: self.set_pin_high(pin) for the next registry entry
Sweep ==
  /\ Alive /\ mpc = "sweep"
  /\ \E ok \in Outcomes :
       LET e == Registry[idx]
           more == SweepContinues(ok) /\ idx < NEntries IN
       /\ SetPinLevel(Pin(e), "High", ok)
       /\ Count(ok)
       /\ swept' = swept \cup {e}
       /\ sweptOk' = IF ok THEN sweptOk \cup {e} ELSE sweptOk
       /\ mpc' = IF more THEN "sweep" ELSE "disconnect"
       /\ idx' = IF more THEN idx + 1 ELSE idx
       /\ sweepComplete' = (sweepComplete \/ (~more /\ swept' = Entries))
  /\ UNCHANGED << handlers, mqtt_client, running, disconnected, exitCode,
                  current_state, configured, fatal, cfgFailed, everLow, applied,
                  signalled, nmsgs, sweepStarted, stateBefore >>
  /\ UNCHANGED busVars
  /\ UNCHANGED testDone

\* cleanup_and_exit: `if self.mqtt_client: self.mqtt_client.disconnect()`
Disconnect ==
  /\ Alive /\ mpc = "disconnect"
  /\ disconnected' = (disconnected \/ mqtt_client # "None")
  /\ mpc' = "exit"
  /\ UNCHANGED << idx, handlers, mqtt_client, running, exitCode, current_state,
                  configured, level, fatal, cfgFailed, everLow, applied, signalled, nmsgs, nfail >>
  /\ UNCHANGED busVars
  /\ UNCHANGED testDone
  /\ UNCHANGED sweepVars

\* cleanup_and_exit: sys.exit(0); the bus thread is a daemon thread and dies
\* with the process.
Exit ==
  /\ Alive /\ mpc = "exit"
  /\ mpc' = "terminated"
  /\ exitCode' = 0
  /\ UNCHANGED << idx, handlers, mqtt_client, running, disconnected, current_state,
                  configured, level, fatal, cfgFailed, everLow, applied, signalled, nmsgs, nfail >>
  /\ UNCHANGED busVars
  /\ UNCHANGED testDone
  /\ UNCHANGED sweepVars

\* ------------------------------------------------------------ bus thread
\* on_connect: rc == 0 subscribes to every command topic, else only logs.
OnConnect ==
  /\ Alive /\ bpc = "connack" /\ ~disconnected
  /\ \E rc \in {0, 5} : subscribed' = (rc = 0)
  /\ bpc' = "idle"
  /\ UNCHANGED << cur, prev, calls, lastOk, pubs, lastPub >>
  /\ UNCHANGED mainVars
  /\ UNCHANGED testDone
  /\ UNCHANGED sweepVars
  /\ UNCHANGED << current_state, configured, level, fatal, cfgFailed, everLow,
                  applied, signalled, nmsgs, nfail >>

\* msg.payload.decode('utf-8') succeeds
Decodable(raw) == raw # InvalidUtf8

\* A topic test that does not look at the second segment.
AcceptsAnyVerb(parts) ==
  /\ Len(parts) = 4 /\ parts[1] = "fpga"
  /\ IsRegistered(parts[3], parts[4])

\* `len(parts) == 4 and parts[0] == 'fpga' and parts[1] == 'command'`, then the
\* registry lookup; parts is the topic split at '/'.
Accepts(parts) ==
  /\ Len(parts) = 4 /\ parts[1] = "fpga" /\ parts[2] = "command"
  /\ IsRegistered(parts[3], parts[4])

\* The locals of on_message / handle_pin_command for the message in cur.
fpga_id   == cur.topic[3]
user_type == cur.topic[4]
CurLine   == << fpga_id, user_type >>

\* A payload that is decoded and not stripped.
CurPayloadUnstripped == cur.raw

\* payload = msg.payload.decode('utf-8').strip()
CurPayload == Strip(cur.raw)

CurValue  == ParseValue(CurPayload)

\* A recorded state that flips each time ON is asked for.
NewStateToggling(old, value) == (old # value)

\* current_state[fpga_id][user_type] = value
NewState(old, value) == value

\* The status publish placed after the `if`, so that it is reached for
\* every message.
AfterDropPublishing == "publish"

\* A message that is not handled reaches the end of the `try` block.
AfterDrop == "return"

\* on_message up to and including handle_pin_command's
\* `current_state[fpga_id][user_type] = value`.  A payload that does not
\* decode raises into the handler's `except Exception`, and a topic that does
\* not match or is not registered falls through: both go straight to the return.
OnMessage(topic, raw) ==
  /\ Alive /\ bpc = "idle" /\ subscribed /\ ~disconnected
  /\ nmsgs < MaxMsgs
  /\ nmsgs' = nmsgs + 1
  /\ IF Decodable(raw) /\ Accepts(topic)
       THEN LET e == << topic[3], topic[4] >> IN
            /\ cur' = [topic |-> topic, raw |-> raw, accepted |-> TRUE]
            /\ prev' = current_state[e]
            /\ current_state' =
                 [current_state EXCEPT ![e] = NewState(@, ParseValue(Strip(raw)))]
            /\ applied' = TRUE
            /\ bpc' = "drive"
       ELSE /\ cur' = [topic |-> topic, raw |-> raw, accepted |-> FALSE]
            /\ bpc' = AfterDrop
            /\ UNCHANGED << prev, current_state, applied >>
  /\ UNCHANGED << subscribed, calls, lastOk, pubs, lastPub >>
  /\ UNCHANGED mainVars
  /\ UNCHANGED testDone
  /\ UNCHANGED sweepVars
  /\ UNCHANGED << configured, level, fatal, cfgFailed, everLow, signalled, nfail >>

\* handle_pin_command: set_pin_low(pin) or set_pin_high(pin), result ignored
Drive ==
  /\ Alive /\ bpc = "drive"
  /\ \E ok \in Outcomes :
       LET lv == TargetLevel(CurValue) IN
       /\ SetPinLevel(Pin(CurLine), lv, ok)
       /\ Count(ok)
       /\ calls' = Append(calls, [pin |-> Pin(CurLine), level |-> lv])
       /\ lastOk' = ok
       /\ everLow' = (everLow \/ lv = "Low")
  /\ bpc' = "publish"
  /\ UNCHANGED << subscribed, cur, prev, pubs, lastPub >>
  /\ UNCHANGED mainVars
  /\ UNCHANGED testDone
  /\ UNCHANGED sweepVars
  /\ UNCHANGED << current_state, configured, fatal, cfgFailed, applied, signalled, nmsgs >>

\* on_message: client.publish(status_topic, payload)
Publish ==
  /\ Alive /\ bpc = "publish"
  /\ lastPub' = [topic |-> << "fpga", "status", fpga_id, user_type >>,
                 payload |-> CurPayload]
  /\ pubs' = pubs + 1
  /\ bpc' = "return"
  /\ UNCHANGED << subscribed, cur, prev, calls, lastOk >>
  /\ UNCHANGED mainVars
  /\ UNCHANGED testDone
  /\ UNCHANGED sweepVars
  /\ UNCHANGED << current_state, configured, level, fatal, cfgFailed, everLow,
                  applied, signalled, nmsgs, nfail >>

\* on_message returns: its locals are gone and the loop waits for the next message
Return ==
  /\ Alive /\ bpc = "return"
  /\ bpc' = "idle"
  /\ cur' = NoMsg
  /\ prev' = FALSE
  /\ calls' = <<>>
  /\ lastOk' = TRUE
  /\ pubs' = 0
  /\ lastPub' = NoPub
  /\ UNCHANGED subscribed
  /\ UNCHANGED mainVars
  /\ UNCHANGED testDone
  /\ UNCHANGED sweepVars
  /\ UNCHANGED << current_state, configured, level, fatal, cfgFailed, everLow,
                  applied, signalled, nmsgs, nfail >>

\* --------------------------------------------------------- specification
Next ==
  \/ InitConfigure
  \/ InitDriveHigh
  \/ InstallSigint
  \/ InstallSigterm
  \/ TestLow
  \/ TestHigh
  \/ MqttNew
  \/ MqttConnect
  \/ SetRunning
  \/ LoopStart
  \/ \E s \in Signals : Signal(s)
  \/ Sweep
  \/ Disconnect
  \/ Exit
  \/ OnConnect
  \/ \E m \in Messages : OnMessage(m[1], m[2])
  \/ Drive
  \/ Publish
  \/ Return

Spec == Init /\ [][Next]_vars

TypeOK ==
  /\ mpc \in {"cfg", "init_high", "install_int", "install_term", "test_low",
              "test_high", "mqtt_new", "mqtt_connect", "set_running", "loop_start",
              "serving", "sweep", "disconnect", "exit", "terminated"}
  /\ idx \in 1..NEntries
  /\ handlers \subseteq Signals
  /\ mqtt_client \in {"None", "Client"}
  /\ exitCode \in {-1, 0, 1, 130, 143}
  /\ current_state \in [Entries -> BOOLEAN]
  /\ configured \subseteq Pins
  /\ level \in [Pins -> {"None", "High", "Low"}]
  /\ bpc \in {"off", "connack", "idle", "drive", "publish", "return"}
  /\ swept \subseteq Entries /\ sweptOk \subseteq swept
  /\ fatal \in {"none", "config", "drive", "connect"}
  /\ nfail \in 0..MaxFailures


\* ------------------------------------------------------------ properties
\* Which coordinator operation an execution context is inside of.
InApply    == bpc = "drive"                       \* bus thread, handle_pin_command
InAllOff   == mpc = "sweep"                       \* main thread, cleanup_and_exit
InSelfTest == mpc \in {"test_low", "test_high"}   \* main thread, test_all_leds

Handled == cur.accepted /\ bpc \in {"publish", "return"}

\* C1: when the driver call of a command fails, the recorded state of the
\* command's line is what it was before the command.
C1_StateUnchangedOnFailure ==
  (Handled /\ ~lastOk) => current_state[CurLine] = prev

\* C2: a handled command has made exactly one driver call, on the pin bound
\* to its line: drive-Low when the desired state is ON, drive-High when it is
\* OFF; before that call it has made none.
C2_Polarity ==
  /\ (cur.accepted /\ bpc = "drive") => calls = <<>>
  /\ Handled =>
       /\ Len(calls) = 1
       /\ calls[1].pin = GPIO_PINS[fpga_id][user_type]
       /\ CurValue => calls[1].level = "Low"
       /\ ~CurValue => calls[1].level = "High"

C2_Witness ==
  /\ Handled /\ CurValue
  /\ calls = << [pin |-> 18, level |-> "Low"] >>
  /\ lastOk /\ level[18] = "Low"

\* C3: when the process has exited through the signal handler and no driver
\* call has failed, the last level driven on every registered pin is High.
C3_AllHighAtExit ==
  (exitCode = 0 /\ nfail = 0) => \A p \in Pins : level[p] = "High"

\* C4: at most one of apply, allOff and selfTest is in progress.
C4_Serialized ==
  Cardinality({ op \in {"apply", "allOff", "selfTest"} :
                  \/ op = "apply" /\ InApply
                  \/ op = "allOff" /\ InAllOff
                  \/ op = "selfTest" /\ InSelfTest }) <= 1

\* C5: a process that has received a termination signal and has ended has run
\* the all-lines-off sweep to its end.
C5_SignalRunsSweep ==
  (signalled /\ ~Alive) => sweepComplete

\* C6: the bus client is disconnected only after a sweep has attempted every
\* line, and the process exits with code 0 only after that sweep and, when a
\* client exists, after the disconnect.
C6_ShutdownOrder ==
  /\ disconnected => sweepComplete
  /\ mpc = "exit" => sweepComplete
  /\ exitCode = 0 =>
       /\ sweepComplete
       /\ mqtt_client # "None" => disconnected

C6_Witness ==
  exitCode = 0 /\ mqtt_client = "Client" /\ disconnected /\ sweepComplete

\* C7: the sweep attempts every line before the one it is at, whatever the
\* earlier calls returned, and has attempted every registered line once it is over.
C7_SweepNoEarlyExit ==
  /\ mpc = "sweep" => swept = { Registry[k] : k \in 1..(idx - 1) }
  /\ mpc \in {"disconnect", "exit"} => swept = Entries
  /\ exitCode = 0 => swept = Entries

C7_Witness ==
  /\ mpc = "disconnect"
  /\ Registry[1] \notin sweptOk
  /\ Registry[NEntries] \in sweptOk
  /\ swept = Entries

\* C8: once the sweep is over, every line whose drive-High succeeded is
\* recorded off and every line whose drive-High failed has the recorded state
\* it had when the sweep began.
C8_SweepRecordsOff ==
  mpc \in {"disconnect", "exit"} =>
    /\ \A e \in sweptOk : current_state[e] = FALSE
    /\ \A e \in swept \ sweptOk : current_state[e] = stateBefore[e]

\* C9: a process ended by a fatal startup failure has attempted the sweep on
\* every registered line and ended with a non-success status.
C9_FatalStartupSweeps ==
  (fatal # "none" /\ ~Alive) => (sweepComplete /\ exitCode # 0)

\* C10: once a set_pin_output of the initial configuration has failed, the
\* process has ended without starting the bus thread, subscribing, applying a
\* command or driving any line Low.
C10_NoServeAfterConfigFailure ==
  cfgFailed =>
    /\ mpc = "terminated" /\ exitCode # 0
    /\ bpc = "off" /\ ~subscribed /\ ~applied /\ ~everLow

C10_Witness ==
  cfgFailed /\ ~Alive /\ idx = 2 /\ fatal = "config"

\* C11: when setup_gpio has returned, every registered line is recorded off,
\* every registered pin is configured as output and stands High; a pin is
\* driven only after it has been configured, and from then on every pin stays
\* configured.
C11_InitPostcondition ==
  /\ mpc = "install_int" =>
       \A e \in Entries :
         /\ current_state[e] = FALSE
         /\ GPIO_PINS[e[1]][e[2]] \in configured
         /\ level[GPIO_PINS[e[1]][e[2]]] = "High"
  /\ mpc = "init_high" => Pin(Registry[idx]) \in configured
  /\ \A p \in Pins : level[p] # "None" => p \in configured
  /\ mpc \notin {"cfg", "init_high", "terminated"} => configured = Pins

C11_Witness ==
  /\ mpc = "install_int"
  /\ configured = Pins
  /\ \A p \in Pins : level[p] = "High"
  /\ \A e \in Entries : ~current_state[e]

\* A four-segment fpga/command topic whose (group, line) pair is not in the
\* registry.
UnknownPair(parts) ==
  /\ Len(parts) = 4 /\ parts[1] = "fpga" /\ parts[2] = "command"
  /\ ~(parts[3] \in DOMAIN GPIO_PINS /\ parts[4] \in DOMAIN GPIO_PINS[parts[3]])

\* C12: a command for an unregistered (group, line) pair goes straight to the
\* handler's return: taking it makes no driver call, changes no recorded state
\* and no pin, publishes nothing and leaves the subscription and the process as
\* they were; the handler then returns to idle, where the next message is taken.
C12_UnregisteredIgnored ==
  /\ []((bpc = "return" /\ UnknownPair(cur.topic)) =>
          /\ ~cur.accepted /\ calls = <<>> /\ pubs = 0 /\ lastPub = NoPub
          /\ Alive => ENABLED Return)
  /\ [][ /\ (bpc = "idle" /\ bpc' # "idle" /\ UnknownPair(cur'.topic)) =>
              /\ bpc' = "return"
              /\ calls' = <<>> /\ pubs' = 0 /\ lastPub' = NoPub
              /\ UNCHANGED << current_state, level, configured, nfail,
                              subscribed, running, mqtt_client, exitCode >>
         /\ (bpc = "return" /\ bpc' # "return" /\ UnknownPair(cur.topic)) =>
              /\ bpc' = "idle"
              /\ UNCHANGED << current_state, level, configured, nfail,
                              subscribed, running, mqtt_client, exitCode >> ]_vars

C12_Witness ==
  /\ bpc = "return" /\ Alive /\ subscribed
  /\ cur.topic \in { <<"fpga", "command", "fpga9", "dan">>,
                     <<"fpga", "command", "fpga1", "ghost">> }
  /\ \E e \in Entries : current_state[e]

\* The topic of the message in cur names a registered line on fpga/command.
CurRegistered ==
  /\ Len(cur.topic) = 4 /\ cur.topic[1] = "fpga" /\ cur.topic[2] = "command"
  /\ IsRegistered(cur.topic[3], cur.topic[4])

\* C13 as stated: when the handler of a command on a registered line returns,
\* it has made its driver call and published exactly one status message, on
\* the line's status topic, carrying the received payload unchanged.
C13_EchoVerbatim ==
  (bpc = "return" /\ CurRegistered) =>
    /\ Len(calls) = 1
    /\ pubs = 1
    /\ lastPub.topic = << "fpga", "status", cur.topic[3], cur.topic[4] >>
    /\ lastPub.payload = cur.raw

\* C13: for a command on a registered line whose payload decodes, whether the
\* driver call succeeded or failed, the handler publishes exactly one status
\* message, on fpga/status/<group>/<line>, carrying the decoded payload with
\* its surrounding whitespace stripped, and only after the driver call was
\* made; a payload that does not decode gets no driver call and no publish.
C13_EchoStripped ==
  /\ (bpc = "return" /\ CurRegistered /\ Decodable(cur.raw)) =>
       /\ Len(calls) = 1
       /\ pubs = 1
       /\ lastPub.topic = << "fpga", "status", cur.topic[3], cur.topic[4] >>
       /\ lastPub.payload = Strip(cur.raw)
       /\ cur.raw = <<" ", "t", "r", "u", "e", "\n">> =>
            lastPub.payload = <<"t", "r", "u", "e">>
  /\ (bpc = "return" /\ CurRegistered /\ ~Decodable(cur.raw)) =>
       calls = <<>> /\ pubs = 0 /\ lastPub = NoPub
  /\ (bpc \in {"drive", "publish"}) => (pubs = 0 /\ lastPub = NoPub)
  /\ bpc = "publish" => Len(calls) = 1
  /\ pubs <= 1

C13_Witness ==
  /\ bpc = "return" /\ CurRegistered
  /\ cur.raw = <<" ", "t", "r", "u", "e", "\n">>
  /\ lastPub.payload = <<"t", "r", "u", "e">>
  /\ pubs = 1
  /\ ~lastOk

\* parts is the split of a topic that on_message's first test lets through.
WellFormed(parts) == Len(parts) = 4 /\ parts[1] = "fpga" /\ parts[2] = "command"

\* C14: a message whose topic is not fpga/command/<a>/<b> goes straight to the
\* handler's return: taking it makes no driver call, changes no recorded state
\* and no pin and publishes nothing, and nothing has been driven or published
\* when the handler returns.
C14_MalformedTopicIgnored ==
  /\ []((bpc \in {"drive", "publish", "return"} /\ ~WellFormed(cur.topic)) =>
          /\ bpc = "return" /\ ~cur.accepted
          /\ calls = <<>> /\ pubs = 0 /\ lastPub = NoPub)
  /\ [][ /\ (bpc = "idle" /\ bpc' # "idle" /\ ~WellFormed(cur'.topic)) =>
              /\ calls' = <<>> /\ pubs' = 0 /\ lastPub' = NoPub
              /\ UNCHANGED << current_state, level, configured, nfail, applied >>
         /\ (bpc = "return" /\ bpc' # "return" /\ ~WellFormed(cur.topic)) =>
              UNCHANGED << current_state, level, configured, nfail, applied,
                           pubs, lastPub, calls >> ]_vars

C14_Witness ==
  /\ bpc = "return"
  /\ \/ Len(cur.topic) = 5
     \/ Len(cur.topic) = 3
     \/ (Len(cur.topic) = 4 /\ cur.topic[2] = "status")
     \/ (Len(cur.topic) = 4 /\ cur.topic[1] = "home")
  /\ \E e \in Entries : current_state[e]

\* -------------------------------------------------- the payload parse alone
\* Longest run of whitespace put before and after a payload text.
MaxPad == 1

\* The whitespace the padding is made of.
PadChars == {" ", "\n"}

Pads == UNION { [1..n -> PadChars] : n \in 0..MaxPad }

\* Payload texts: 'true' in every mix of cases, and texts that are not it.
Cores ==
  { <<a, b, c, d>> : a \in {"t", "T"}, b \in {"r", "R"}, c \in {"u", "U"}, d \in {"e", "E"} }
    \cup { <<"1">>, <<"y", "e", "s">>, <<>>, <<"o", "n">>,
           <<"f", "a", "l", "s", "e">>, <<"F", "A", "L", "S", "E">>,
           <<"t", "r", "u">>, <<"t", "r", "u", "e", "e">>,
           <<"t", "r", " ", "u", "e">>, <<"t", "r", "u", "e", "!">>,
           <<"\t", "T", "R", "U", "E", "\t">> }

ParseInputs == { pre \o core \o post : pre \in Pads, core \in Cores, post \in Pads }

ParseTopic == << "fpga", "command", GroupOrder[1], LineOrder[1] >>

\* The controller serving with nothing in flight: startup went through with
\* every driver call successful and no command has arrived yet.
ParseInit ==
  /\ mpc = "serving"
  /\ idx = 1
  /\ handlers = Signals
  /\ mqtt_client = "Client"
  /\ running = TRUE
  /\ disconnected = FALSE
  /\ exitCode = -1
  /\ current_state = [e \in Entries |-> FALSE]
  /\ configured = Pins
  /\ level = [p \in Pins |-> "High"]
  /\ bpc = "idle"
  /\ subscribed = TRUE
  /\ cur = NoMsg
  /\ prev = FALSE
  /\ calls = <<>>
  /\ lastOk = TRUE
  /\ pubs = 0
  /\ lastPub = NoPub
  /\ swept = {}
  /\ sweptOk = {}
  /\ sweepComplete = FALSE
  /\ sweepStarted = FALSE
  /\ stateBefore = [e \in Entries |-> FALSE]
  /\ fatal = "none"
  /\ cfgFailed = FALSE
  /\ everLow = TRUE
  /\ testDone = TRUE
  /\ applied = FALSE
  /\ signalled = FALSE
  /\ nmsgs = 0
  /\ nfail = 0

\* The bus thread handling commands for one line, one payload text after another.
ParseNext ==
  \/ \E raw \in ParseInputs : OnMessage(ParseTopic, raw)
  \/ Drive
  \/ Publish
  \/ Return

ParseSpec == ParseInit /\ [][ParseNext]_vars

\* The reference parse: the text is 'true' in any mix of cases with nothing
\* but whitespace before and after it.
RefDesiredOn(raw) ==
  \E i \in 1..Len(raw) :
    /\ i + 3 <= Len(raw)
    /\ \A k \in 1..(i - 1) : raw[k] \in {" ", "\n", "\t"}
    /\ raw[i] \in {"t", "T"}
    /\ raw[i + 1] \in {"r", "R"}
    /\ raw[i + 2] \in {"u", "U"}
    /\ raw[i + 3] \in {"e", "E"}
    /\ \A k \in (i + 4)..Len(raw) : raw[k] \in {" ", "\n", "\t"}

C16_ApplyIdempotent ==
  /\ [](Handled =>
          /\ current_state[CurLine] = CurValue
          /\ prev = CurValue => current_state[CurLine] = prev
          /\ calls = << [pin |-> GPIO_PINS[fpga_id][user_type],
                         level |-> IF CurValue THEN "Low" ELSE "High"] >>)
  /\ [][ /\ (bpc = "idle" /\ bpc' = "drive"
               /\ current_state[<< cur'.topic[3], cur'.topic[4] >>]
                    = current_state'[<< cur'.topic[3], cur'.topic[4] >>]) =>
              current_state' = current_state
         /\ (bpc = "drive" /\ bpc' = "publish") =>
              /\ Len(calls') = Len(calls) + 1
              /\ current_state' = current_state
              /\ level[GPIO_PINS[fpga_id][user_type]]
                   = (IF CurValue THEN "Low" ELSE "High") => level' = level ]_vars

C16_Witness ==
  /\ Handled /\ nmsgs = 2
  /\ CurValue /\ prev = TRUE /\ current_state[CurLine] = TRUE
  /\ lastOk /\ nfail = 0
  /\ Len(calls) = 1
  /\ level[GPIO_PINS[fpga_id][user_type]] = "Low"

\* C17: the bus thread exists, is subscribed or has applied a command only
\* when setup_gpio has configured every registered pin as output and driven it
\* High, the start-up LED test has gone through the whole registry and the
\* client has been created and started; a command in the handler is never
\* ahead of that.
C17_SubscribeAfterInit ==
  (bpc # "off" \/ subscribed \/ applied \/ cur # NoMsg) =>
    /\ configured = Pins
    /\ \A e \in Entries : level[GPIO_PINS[e[1]][e[2]]] \in {"High", "Low"}
    /\ testDone
    /\ ~cfgFailed
    /\ mqtt_client = "Client"
    /\ running
    /\ mpc \notin {"cfg", "init_high", "install_int", "install_term",
                   "test_low", "test_high", "mqtt_new", "mqtt_connect",
                   "set_running", "loop_start"}

C17_Witness ==
  /\ subscribed /\ applied
  /\ bpc = "drive"
  /\ testDone
  /\ configured = Pins
  /\ mpc = "serving"

\* The pin of the registry entry the running loop of the main thread is at.
LoopPin == GPIO_PINS[Registry[idx][1]][Registry[idx][2]]

\* C18: test_all_leds goes through the registry in order, one entry at a time:
\* a drive-Low step touches only the entry's pin and is followed by the
\* drive-High step of the same entry, which touches only that pin and moves to
\* the next entry or, after the last, out of the test; both steps go on in the
\* same way when the driver call fails; no step of it writes recorded state;
\* with no failed call the entry under test is the only pin Low, and every pin
\* is High between entries and when the test is over.
C18_SelfTest ==
  /\ [](InSelfTest => (bpc = "off" /\ \A e \in Entries : ~current_state[e]))
  /\ []((nfail = 0 /\ mpc = "test_high") =>
          \A p \in Pins : level[p] = (IF p = LoopPin THEN "Low" ELSE "High"))
  /\ []((nfail = 0 /\ mpc \in {"test_low", "mqtt_new"}) =>
          \A p \in Pins : level[p] = "High")
  /\ []((mpc = "mqtt_new") => testDone)
  /\ [][ /\ (mpc = "test_low" /\ (level' # level \/ nfail' # nfail)) =>
              /\ mpc' = "test_high" /\ idx' = idx
              /\ \A p \in Pins \ {LoopPin} : level'[p] = level[p]
              /\ level'[LoopPin] = (IF nfail' = nfail THEN "Low" ELSE level[LoopPin])
              /\ current_state' = current_state
         /\ (mpc = "test_high" /\ (level' # level \/ nfail' # nfail)) =>
              /\ IF idx < NEntries
                   THEN mpc' = "test_low" /\ idx' = idx + 1
                   ELSE mpc' = "mqtt_new"
              /\ \A p \in Pins \ {LoopPin} : level'[p] = level[p]
              /\ level'[LoopPin] = (IF nfail' = nfail THEN "High" ELSE level[LoopPin])
              /\ current_state' = current_state
         /\ (InSelfTest /\ mpc' # mpc) =>
              \/ (mpc = "test_low" /\ mpc' = "test_high")
              \/ (mpc = "test_high" /\ mpc' \in {"test_low", "mqtt_new"})
              \/ signalled' ]_vars

C18_Witness ==
  /\ mpc = "mqtt_new" /\ testDone /\ everLow
  /\ nfail = 1
  /\ \E p \in Pins : level[p] = "Low"
  /\ \A e \in Entries : ~current_state[e]

\* No thread is inside setup_gpio, test_all_leds, handle_pin_command or the
\* shutdown sweep, and no shutdown sweep has run.
Quiescent ==
  /\ mpc \in {"install_int", "install_term", "mqtt_new", "mqtt_connect",
              "set_running", "loop_start", "serving"}
  /\ bpc \in {"off", "connack", "idle", "publish", "return"}
  /\ ~sweepStarted

\* C19: between operations, when no driver call has failed so far, a line is
\* recorded on exactly when its pin was last driven Low, and every pin has
\* been driven.
C19_StateMatchesHardware ==
  (Quiescent /\ nfail = 0) =>
    \A e \in Entries :
      /\ level[GPIO_PINS[e[1]][e[2]]] \in {"Low", "High"}
      /\ current_state[e] <=> (level[GPIO_PINS[e[1]][e[2]]] = "Low")

C19_Witness ==
  /\ Quiescent /\ nfail = 0
  /\ mpc = "serving" /\ bpc = "idle" /\ nmsgs = 2
  /\ current_state[<<"fpga1", "dan">>] /\ level[18] = "Low"
  /\ ~current_state[<<"fpga1", "nate">>] /\ level[19] = "High"

\* C20: the step of a command that records its desired state writes only the
\* entry of the command's line, and its driver call is on the pin GPIO_PINS
\* binds to that line and changes the level of no other pin; no two
\* (group, line) pairs of GPIO_PINS are bound to the same pin.
C20_OnlyOwnLine ==
  /\ [](\A g1 \in DOMAIN GPIO_PINS, g2 \in DOMAIN GPIO_PINS :
          \A l1 \in DOMAIN GPIO_PINS[g1], l2 \in DOMAIN GPIO_PINS[g2] :
            GPIO_PINS[g1][l1] = GPIO_PINS[g2][l2] => (g1 = g2 /\ l1 = l2))
  /\ [][ /\ (bpc = "idle" /\ bpc' = "drive") =>
              /\ \A e \in DOMAIN current_state :
                   e # << cur'.topic[3], cur'.topic[4] >> =>
                     current_state'[e] = current_state[e]
              /\ level' = level
         /\ (bpc = "drive" /\ bpc' = "publish") =>
              /\ calls'[Len(calls')].pin = GPIO_PINS[cur.topic[3]][cur.topic[4]]
              /\ \A p \in DOMAIN level :
                   p # GPIO_PINS[cur.topic[3]][cur.topic[4]] => level'[p] = level[p]
              /\ current_state' = current_state
         /\ (bpc \in {"publish", "return"} /\ bpc' # bpc) =>
              (current_state' = current_state /\ level' = level) ]_vars

C20_Witness ==
  /\ bpc = "publish" /\ lastOk
  /\ cur.topic = <<"fpga", "command", "fpga1", "nate">>
  /\ current_state[<<"fpga1", "nate">>] /\ level[19] = "Low"
  /\ ~current_state[<<"fpga1", "dan">>] /\ level[18] = "High"

====
